---- MODULE Spec2Model ----
(***************************************************************************)
(* Verification model of dbt's default adapter (dbt/adapters/default.py),  *)
(* node parser (dbt/parser.py) and jinja client (dbt/clients/jinja.py).    *)
(*                                                                         *)
(* The driver behind a connection handle is opaque: every driver call      *)
(* (cursor.execute, commit, rollback, close) is recorded in `events` and   *)
(* succeeds.  dbt.flags.STRICT_MODE validation accepts every connection    *)
(* the adapter builds and is not modelled.                                 *)
(***************************************************************************)
EXTENDS Integers, Sequences, FiniteSets, TLC

\* ------------------------------------------------------------------ bounds
MaxAcquire == 3          \* handles the driver hands out in one run
MaxParts == 3            \* pieces (statements and markers) of a wrapped_sql

\* --------------------------------------------------------------- constants
None == "None"
Names == {"master", "model_a"}
OptNames == Names \cup {None}

VARIABLES
    connection_cache,    \* default.py:16, name -> connection dict
    nacquired,           \* number of driver handshakes so far; handle ids 1..nacquired
    closed_handles,      \* handles on which the driver's close() was called
    call,                \* the operation called last, with its arguments
    outcome,             \* "ok" or the exception the last operation raised
    ret,                 \* the connection the last operation returned
    events,              \* driver calls and dispatches of the last operation, in order
    alters,              \* alter_column_type calls of the last operation
    logged,              \* what cleanup_connections logged last
    catalog,             \* information_schema.columns of the warehouse
    workers,             \* per worker thread: its place in get_connection and its locals
    parsed,              \* the node parse_node returned last
    parsed_nodes,        \* the mapping parse_sql_nodes or parse_schema_tests returned last
    diagnostics          \* the (node, variable) pairs handed to the undefined callback

vars == <<connection_cache, nacquired, closed_handles, call, outcome, ret,
          events, alters, logged, catalog, workers, parsed, parsed_nodes,
          diagnostics>>

\* A connection dict (default.py:290-297); `type` is the adapter's constant.
NoConn == [name |-> None, state |-> "none", transaction_open |-> FALSE,
           handle |-> 0, credentials |-> "none"]

EmptyCache == [n \in {} |-> NoConn]

Event(kind, connection, sql) ==
    [kind |-> kind, conn |-> connection.name, handle |-> connection.handle,
     sql |-> sql]

\* default.py:264-267
NormName(name) == IF name = None THEN "master" ELSE name

\* The adapter's open_connection: the driver handshake, init -> open.
open_connection(result, h) ==
    [result EXCEPT !.state = "open", !.handle = h]

\* default.py:280-302
acquire_connection(profile, name, h) ==
    open_connection([name |-> name, state |-> "init",
                     transaction_open |-> FALSE, handle |-> 0,
                     credentials |-> profile], h)

\* A cache test that takes a closed connection for a missing one.
CacheHit_open_only(cache, name) ==
    name \in DOMAIN cache /\ cache[name].state = "open"

\* default.py:269, `if connection_cache.get(name)`: a cached dict is truthy.
CacheHit(cache, name) == name \in DOMAIN cache

Put(cache, name, connection) ==
    [k \in DOMAIN cache \cup {name} |->
        IF k = name THEN connection ELSE cache[k]]

\* default.py:260-278.  Result: the cache and handshake count afterwards, the
\* connection returned and the driver handshakes made.
get_connection(cache, n, profile, name0) ==
    LET name == NormName(name0) IN
    IF CacheHit(cache, name)
    THEN [cache |-> cache, n |-> n, connection |-> cache[name],
          events |-> <<>>]
    ELSE LET connection == acquire_connection(profile, name, n + 1)
             cache2 == Put(cache, name, connection)
         IN [cache |-> cache2, n |-> n + 1, connection |-> cache2[name],
             events |-> <<Event("acquire", connection, <<>>)>>]

\* A reload that hands back the object it was given.
reload_passed_copy(cache, n, connection) ==
    [cache |-> cache, n |-> n, connection |-> connection, events |-> <<>>]

\* default.py:318-321
reload(cache, n, connection) ==
    get_connection(cache, n, connection.credentials, connection.name)

\* add_query that ignores model_name and always uses the default connection.
add_query_on_master(cache, n, profile, sql, model_name) ==
    LET g == get_connection(cache, n, profile, None)
    IN [cache |-> g.cache, n |-> g.n, connection |-> g.connection,
        events |-> g.events \o <<Event("execute", g.connection, sql)>>]

\* default.py:399-417
add_query(cache, n, profile, sql, model_name) ==
    LET g == get_connection(cache, n, profile, model_name)
    IN [cache |-> g.cache, n |-> g.n, connection |-> g.connection,
        events |-> g.events \o <<Event("execute", g.connection, sql)>>]

\* begin without its check of transaction_open.
BeginRaises_never(connection) == FALSE

\* default.py:331
BeginRaises(connection) == connection.transaction_open = TRUE

\* default.py:352 and 372
TxnNotOpen(connection) == connection.transaction_open = FALSE

\* ------------------------------------------- warehouse catalog and columns
Cols == {"a", "b"}
Sizes == {5, 10, 20}
TempTable == "tmp"
ToSchema == "s"
ToTable == "t"

\* The types a column of the catalog can have; char_size 0 stands for the
\* NULL character_maximum_length of a type that is not a string.
ColTypes ==
    {[data_type |-> "integer", char_size |-> 0]} \cup
    {[data_type |-> "character varying", char_size |-> sz] : sz \in Sizes}

Row(schema, table, column, type) ==
    [table_schema |-> schema, table_name |-> table, column_name |-> column,
     data_type |-> type.data_type, char_size |-> type.char_size]

\* The rows of one table: each of its columns once.
TableRows(schema, table, cols, typeOf) ==
    {Row(schema, table, c, typeOf[c]) : c \in cols}

\* A table named like the target in another schema.
DecoyRows == {Row("other", ToTable, "b", [data_type |-> "character varying",
                                           char_size |-> 5])}

TableContents ==
    UNION {[cols -> ColTypes] : cols \in SUBSET Cols}

Catalogs ==
    {TableRows("pg_temp", TempTable, DOMAIN f, f) \cup
     TableRows(ToSchema, ToTable, DOMAIN g, g) \cup
     (IF d THEN DecoyRows ELSE {}) :
        f \in TableContents, g \in TableContents, d \in BOOLEAN}

\* dbt.schema.Column(name, data_type, char_size), default.py:189-190
Column(row) ==
    [name |-> row.column_name, data_type |-> row.data_type,
     char_size |-> row.char_size]

\* dbt.schema.Column: the string family, its capacity and its type name.
is_string(column) == column.data_type = "character varying"
string_size(column) == column.char_size
string_type(size) == [data_type |-> "character varying", char_size |-> size]
can_expand_to(column, other_column) ==
    /\ is_string(column)
    /\ is_string(other_column)
    /\ string_size(other_column) > string_size(column)

\* default.py:172-180, the where clause of the introspection query.
RowMatches(row, schema_name, table_name) ==
    /\ row.table_name = table_name
    /\ schema_name # None => row.table_schema = schema_name

\* default.py:169-193.  Result as for add_query, with the columns fetched.
get_columns_in_table(cat, cache, n, profile, schema_name, table_name, model_name) ==
    LET q == add_query(cache, n, profile,
                       <<"COLUMNS", table_name, schema_name>>, model_name)
        data == {row \in cat : RowMatches(row, schema_name, table_name)}
    IN [cache |-> q.cache, n |-> q.n, events |-> q.events,
        columns |-> {Column(row) : row \in data}]

\* default.py:201-206, {col.name: col for col in columns}; the rows of one
\* table name their columns once.
ColumnsByName(columns) ==
    [nm \in {col.name : col \in columns} |->
        CHOOSE col \in columns : col.name = nm]

\* The test without `target_column is not None`.
NeedsAlter_no_presence_check(target_columns, column_name, reference_column) ==
    \/ column_name \notin DOMAIN target_columns
    \/ can_expand_to(target_columns[column_name], reference_column)

\* default.py:211-212
NeedsAlter(target_columns, column_name, reference_column) ==
    /\ column_name \in DOMAIN target_columns
    /\ can_expand_to(target_columns[column_name], reference_column)

\* default.py:195-221.  alter_column_type is the adapter's; its calls are
\* collected.
expand_target_column_types(cat, cache, n, profile, temp_table, to_schema, to_table, model_name) ==
    LET r == get_columns_in_table(cat, cache, n, profile, None, temp_table,
                                  model_name)
        t == get_columns_in_table(cat, r.cache, r.n, profile, to_schema,
                                  to_table, model_name)
        reference_columns == ColumnsByName(r.columns)
        target_columns == ColumnsByName(t.columns)
    IN [cache |-> t.cache, n |-> t.n, events |-> r.events \o t.events,
        alters |->
          {[schema |-> to_schema, table |-> to_table, column_name |-> cn,
            new_column_type |->
                string_type(string_size(reference_columns[cn])),
            model_name |-> model_name] :
           cn \in {c \in DOMAIN reference_columns :
                     NeedsAlter(target_columns, c, reference_columns[c])}}]

\* ------------------------------------------------------------ execute_model
\* The pieces of a wrapped_sql: "S" a plain statement; "OP" a marker line
\* -- DBT_OPERATION {function: expand_column_types_if_needed, args: {temp_table:
\* tmp, to_schema: s, to_table: t}}; "OPX" a marker line whose function is not
\* in func_map.
Pieces == {"S", "OP", "OPX"}
WrappedSqls == UNION {[1..k -> Pieces] : k \in 0..MaxParts}

\* default.py:123, the lines the pattern '-- (DBT_OPERATION .*)' matches.
SplitsAt(piece) == piece \in {"OP", "OPX"}

\* default.py:123, re.split with one capturing group: the text before the
\* first match (empty when there is none), the captured group, and the split
\* of the rest.
RECURSIVE re_split(_)
re_split(text) ==
    IF \A i \in 1..Len(text) : ~SplitsAt(text[i])
    THEN <<text>>
    ELSE LET i == CHOOSE j \in 1..Len(text) :
                    /\ SplitsAt(text[j])
                    /\ \A k \in 1..(j - 1) : ~SplitsAt(text[k])
         IN <<SubSeq(text, 1, i - 1), <<text[i]>>>> \o
            re_split(SubSeq(text, i + 1, Len(text)))

\* default.py:126-127, re.match(r'^DBT_OPERATION ({.*})$', part)
IsOperation(part) == Len(part) = 1 /\ part[1] \in {"OP", "OPX"}

\* default.py:129-130, instruction['function']
FunctionOf(part) ==
    IF part[1] = "OP" THEN "expand_column_types_if_needed" ELSE "unknown"

\* default.py:138-141
func_map == {"expand_column_types_if_needed"}

\* default.py:125-146, one turn of the loop on the running state st.
RunPart(cat, st, part, model) ==
    IF IsOperation(part)
    THEN LET function == FunctionOf(part)
             dispatch == [kind |-> "dispatch", conn |-> None, handle |-> 0,
                          sql |-> <<function>>]
         IN IF function \notin func_map
            THEN [st EXCEPT !.exc = "KeyError"]
            ELSE LET x == expand_target_column_types(
                              cat, st.cache, st.n, "profile", TempTable,
                              ToSchema, ToTable, model.name)
                 IN [cache |-> x.cache, n |-> x.n,
                     events |-> st.events \o <<dispatch>> \o x.events,
                     alters |-> st.alters \cup x.alters, exc |-> "ok"]
    ELSE LET q == add_query(st.cache, st.n, "profile", part, model.name)
         IN [st EXCEPT !.cache = q.cache, !.n = q.n,
                       !.events = st.events \o q.events]

\* default.py:125, the loop over the parts, left when a part raises.
RECURSIVE RunParts(_, _, _, _)
RunParts(cat, st, parts, model) ==
    IF parts = <<>> \/ st.exc # "ok"
    THEN st
    ELSE RunParts(cat, RunPart(cat, st, Head(parts), model), Tail(parts),
                  model)

\* ------------------------------------------------------ templates (jinja)
MaxItems == 2            \* items of a raw_sql template
MaxChain == 2            \* operations applied in a row to one undefined name

\* Operations a template applies to a name: f(), f[0], f < 1, f + 1.
Ops == {"call", "index", "cmp", "arith"}
Chains == UNION {[1..k -> Ops] : k \in 0..MaxChain}

\* The items of a raw_sql: plain text; {{ ref('name') }}; {{ config(...) }}
\* called with keywords (val), or with no argument at all (val = None);
\* {{ env<ops> }}, an expression on the name env, absent from the context.
Item(kind, name, val, ops) ==
    [kind |-> kind, name |-> name, val |-> val, ops |-> ops]
Items ==
    {Item("text", "", "", <<>>)} \cup
    {Item("ref", nm, "", <<>>) : nm \in {"raw_orders", "customers"}} \cup
    {Item("config", "materialized", v, <<>>) : v \in {"table", "view", None}} \cup
    {Item("undef", "env", "", ch) : ch \in Chains}

\* The templates: up to MaxItems items, at most one of them an expression on
\* an undefined name.
RawSqls ==
    {sql \in UNION {[1..k -> Items] : k \in 0..MaxItems} :
        \A i, j \in 1..Len(sql) :
            (sql[i].kind = "undef" /\ sql[j].kind = "undef") => i = j}

EmptyCfg == [k \in {} |-> ""]

\* dict.update
Update(d, e) ==
    [k \in DOMAIN d \cup DOMAIN e |-> IF k \in DOMAIN e THEN e[k] ELSE d[k]]

\* The running state of a render: the exception raised if any, the options
\* config() wrote into the SourceConfig, the nodes ref() recorded, and the
\* callback invocations.
RenderStart ==
    [exc |-> "ok", in_model_config |-> EmptyCfg, refs |-> {}, undefined |-> {}]

\* jinja.py:10-24 and jinja2.Undefined.  One operation applied to a value
\* that is an Undefined (v = "undefined") or the None that an operation on a
\* SilentUndefined returned (v = "none"): the value and exception that follow
\* and whether the callback ran.  A plain jinja2.Undefined raises
\* UndefinedError; _fail_with_undefined_error calls the callback and returns
\* None; None() and None + 1 and None < 1 (Python 3) raise TypeError; None[0]
\* is turned back into an Undefined by the environment's getitem.
ApplyOp(v, op, silent) ==
    IF v = "undefined"
    THEN IF silent
         THEN [v |-> "none", exc |-> "ok", cb |-> TRUE]
         ELSE [v |-> v, exc |-> "UndefinedError", cb |-> FALSE]
    ELSE IF op = "index"
         THEN [v |-> "undefined", exc |-> "ok", cb |-> FALSE]
         ELSE [v |-> v, exc |-> "TypeError", cb |-> FALSE]

\* {{ name<ops> }}: the operations left to right, then the output of the
\* value, which str() turns into '' or 'None' without raising.
RECURSIVE EvalChain(_, _, _, _)
EvalChain(acc, v, ops, silent) ==
    IF ops = <<>> \/ acc.exc # "ok"
    THEN acc
    ELSE LET a == ApplyOp(v, Head(ops), silent)
         IN EvalChain([exc |-> a.exc, cb |-> acc.cb \/ a.cb], a.v, Tail(ops),
                      silent)

\* parser.py:82-96, the config() of the context.
config_call(st, item) ==
    IF item.val = None
    THEN [st EXCEPT !.exc = "CompilerError"]
    ELSE [st EXCEPT !.in_model_config =
                Update(st.in_model_config, item.name :> item.val)]

\* parser.py:189, context['ref'] = lambda *args: ''
ref_call(st, item, node) == st

\* One item of the template rendered against the context of parse_node
\* (parser.py:187-193).
RenderItem(st, item, node, silent) ==
    CASE item.kind = "text" -> st
      [] item.kind = "ref" -> ref_call(st, item, node)
      [] item.kind = "config" -> config_call(st, item)
      [] item.kind = "undef" ->
           LET e == EvalChain([exc |-> "ok", cb |-> FALSE], "undefined",
                              item.ops, silent)
           IN [st EXCEPT !.exc = e.exc,
                         !.undefined =
                            IF e.cb
                            THEN st.undefined \cup
                                 {[node |-> node.name, name |-> item.name]}
                            ELSE st.undefined]

RECURSIVE RenderItems(_, _, _, _)
RenderItems(st, items, node, silent) ==
    IF items = <<>> \/ st.exc # "ok"
    THEN st
    ELSE RenderItems(RenderItem(st, Head(items), node, silent), Tail(items),
                     node, silent)

\* jinja.py:52, the parameters of get_rendered.
get_rendered_params == {"string", "ctx", "node", "silent_on_undefined"}

\* jinja.py:36-59.  keywords: the keyword arguments of the call.  A keyword
\* that is no parameter is a TypeError; UndefinedError is turned into a
\* compiler error, any other exception passes through.
get_rendered(string, node, keywords) ==
    IF ~(DOMAIN keywords \subseteq get_rendered_params)
    THEN [RenderStart EXCEPT !.exc = "TypeError"]
    ELSE LET silent_on_undefined ==
                 IF "silent_on_undefined" \in DOMAIN keywords
                 THEN keywords["silent_on_undefined"] ELSE FALSE
             st == RenderItems(RenderStart, string, node, silent_on_undefined)
         IN IF st.exc = "UndefinedError"
            THEN [st EXCEPT !.exc = "CompilerError"]
            ELSE st

\* -------------------------------------------------------------- parse_node
Cfgs == {EmptyCfg, "materialized" :> "ephemeral"}

\* The unparsed definitions handed to parse_node: model orders of package
\* analytics, with or without a config block of its own.
Nodes ==
    {[name |-> "orders", package_name |-> "analytics",
      resource_type |-> "model", path |-> <<"orders.sql">>,
      raw_sql |-> sql, config |-> cfg] : sql \in RawSqls, cfg \in Cfgs}

NoNode ==
    [unique_id |-> <<>>, name |-> None,
     depends_on |-> [nodes |-> {}, macros |-> {}], config |-> EmptyCfg,
     empty |-> FALSE, fqn |-> <<>>, tags |-> {}]

\* parser.py:215, to_return = {}
NoNodes == [id \in {} |-> NoNode]

\* parser.py:66-67
get_path(resource_type, package_name, resource_name) ==
    <<resource_type, package_name, resource_name>>

\* parser.py:99-107; a path is the sequence of its segments and the last
\* segment is the file name, whose extension splitext drops.
Basename(file) ==
    CASE file = "orders.sql" -> "orders"
      [] file = "customers.sql" -> "customers"
      [] OTHER -> file
get_fqn(path, package_project_config, extra) ==
    <<package_project_config.name>> \o SubSeq(path, 1, Len(path) - 1) \o
    extra \o <<Basename(path[Len(path)])>>

\* dbt.model.SourceConfig.config: root-project defaults, overridden by the
\* package's, overridden by the inline options.
SourceConfig(root_project_config, package_project_config, in_model_config) ==
    Update(Update(root_project_config.models, package_project_config.models),
           in_model_config)

\* parser.py:195-197, the keyword arguments parse_node gives get_rendered.
ParseNodeKeywords == "capture_macros" :> TRUE

\* parser.py:164-208.  Result: the exception raised, the node returned
\* (NoNode when it raises) and the callback invocations.
parse_node(node, node_path, root_project_config, package_project_config, tags, fqn_extra) ==
    LET fqn == get_fqn(node.path, package_project_config, fqn_extra)
        r == get_rendered(node.raw_sql, node, ParseNodeKeywords)
        config_dict ==
            Update(node.config,
                   SourceConfig(root_project_config, package_project_config,
                                r.in_model_config))
    IN IF r.exc # "ok"
       THEN [exc |-> r.exc, node |-> NoNode, undefined |-> r.undefined]
       ELSE [exc |-> "ok",
             node |-> [unique_id |-> node_path, name |-> node.name,
                       depends_on |-> [nodes |-> r.refs, macros |-> {}],
                       config |-> config_dict,
                       empty |-> (node.raw_sql = <<>>),
                       fqn |-> fqn, tags |-> tags],
             undefined |-> r.undefined]

\* ------------------------------------------------------------------ Init
\* The catalog of the column-widening example: target a varchar(10) and
\* b varchar(20), reference a varchar(20) and b varchar(5).
DefaultCatalog ==
    {Row("pg_temp", TempTable, "a", string_type(20)),
     Row("pg_temp", TempTable, "b", string_type(5)),
     Row(ToSchema, ToTable, "a", string_type(10)),
     Row(ToSchema, ToTable, "b", string_type(20))}

\* The worker threads of the run and what each holds: pc its place in
\* get_connection, name and connection its locals, got what it was returned.
Workers == {"w1", "w2"}
IdleWorker == [pc |-> "idle", name |-> None, connection |-> NoConn,
               got |-> NoConn]

\* Module load: default.py:16, nothing parsed and nothing run yet.
InitWith(cat, c) ==
    /\ connection_cache = EmptyCache
    /\ nacquired = 0
    /\ closed_handles = {}
    /\ call = c
    /\ outcome = "ok"
    /\ ret = NoConn
    /\ events = <<>>
    /\ alters = {}
    /\ logged = {}
    /\ catalog = cat
    /\ workers = [w \in Workers |-> IdleWorker]
    /\ parsed = NoNode
    /\ parsed_nodes = NoNodes
    /\ diagnostics = {}

Init == InitWith(DefaultCatalog, [op |-> "init"])

\* ------------------------------------------------- connection operations
\* default.py:260-278, called by a client with its profile.
GetConnection(name) ==
    LET g == get_connection(connection_cache, nacquired, "profile", name) IN
    /\ g.n <= MaxAcquire
    /\ connection_cache' = g.cache
    /\ nacquired' = g.n
    /\ call' = [op |-> "get_connection", name |-> name]
    /\ outcome' = "ok"
    /\ ret' = g.connection
    /\ events' = g.events
    /\ alters' = {}
    /\ logged' = {}
    /\ UNCHANGED <<closed_handles, catalog, workers, parsed, parsed_nodes,
                 diagnostics>>

\* default.py:323-341.  add_query is handed the connection as its profile
\* and no model_name.
Begin(name) ==
    LET g == get_connection(connection_cache, nacquired, "profile", name)
        connection == g.connection
    IN
    /\ call' = [op |-> "begin", name |-> name]
    /\ alters' = {}
    /\ logged' = {}
    /\ UNCHANGED <<closed_handles, catalog, workers, parsed, parsed_nodes,
                 diagnostics>>
    /\ IF BeginRaises(connection)
       THEN /\ g.n <= MaxAcquire
            /\ outcome' = "ProgrammingException"
            /\ connection_cache' = g.cache
            /\ nacquired' = g.n
            /\ ret' = NoConn
            /\ events' = g.events
       ELSE LET q == add_query(g.cache, g.n, "connection", <<"BEGIN">>, None)
                connection2 == [connection EXCEPT !.transaction_open = TRUE]
            IN /\ q.n <= MaxAcquire
               /\ outcome' = "ok"
               /\ connection_cache' = Put(q.cache, name, connection2)
               /\ nacquired' = q.n
               /\ ret' = connection2
               /\ events' = g.events \o q.events

\* The connection objects a caller passes to commit, rollback and close: the
\* fields the adapter reads (name, credentials), the flag the object carries
\* and its handle: none (0), or the first handle the driver gave out, which a
\* copy taken before a cleanup still carries.
ConnArgs ==
    {[NoConn EXCEPT !.name = nm, !.state = "open", !.transaction_open = b,
                    !.credentials = "profile", !.handle = h] :
        nm \in Names, b \in BOOLEAN, h \in 0..1}

\* The objects a caller can hold now: a handle it carries was given out.
HeldArgs == {c \in ConnArgs : c.handle <= nacquired}

\* A commit / rollback that calls the driver before it tests the flag.
EndTransaction_driver_first(op, c) ==
    LET g == reload(connection_cache, nacquired, c)
        connection == g.connection
        connection2 == [connection EXCEPT !.transaction_open = FALSE]
    IN
    /\ g.n <= MaxAcquire
    /\ call' = [op |-> op, arg |-> c]
    /\ alters' = {}
    /\ logged' = {}
    /\ nacquired' = g.n
    /\ UNCHANGED <<closed_handles, catalog, workers, parsed, parsed_nodes,
                   diagnostics>>
    /\ events' = g.events \o <<Event(op, connection, <<>>)>>
    /\ IF TxnNotOpen(connection)
       THEN /\ outcome' = "ProgrammingException"
            /\ connection_cache' = g.cache
            /\ ret' = NoConn
       ELSE /\ outcome' = "ok"
            /\ connection_cache' = Put(g.cache, connection.name, connection2)
            /\ ret' = connection2

\* default.py:343-363 (driver = "commit") and 365-383 (driver = "rollback")
EndTransaction(op, c) ==
    LET g == reload(connection_cache, nacquired, c)
        connection == g.connection
    IN
    /\ g.n <= MaxAcquire
    /\ call' = [op |-> op, arg |-> c]
    /\ alters' = {}
    /\ logged' = {}
    /\ nacquired' = g.n
    /\ UNCHANGED <<closed_handles, catalog, workers, parsed, parsed_nodes,
                 diagnostics>>
    /\ IF TxnNotOpen(connection)
       THEN /\ outcome' = "ProgrammingException"
            /\ connection_cache' = g.cache
            /\ ret' = NoConn
            /\ events' = g.events
       ELSE LET connection2 == [connection EXCEPT !.transaction_open = FALSE]
            IN /\ outcome' = "ok"
               /\ connection_cache' = Put(g.cache, connection.name, connection2)
               /\ ret' = connection2
               /\ events' = g.events \o <<Event(op, connection, <<>>)>>

\* default.py:343-363
Commit(c) == EndTransaction("commit", c)

\* default.py:365-383
Rollback(c) == EndTransaction("rollback", c)

\* default.py:385-397
Close(c) ==
    LET g == reload(connection_cache, nacquired, c)
        connection == g.connection
        connection2 == [connection EXCEPT !.state = "closed"]
    IN
    /\ g.n <= MaxAcquire
    /\ call' = [op |-> "close", arg |-> c]
    /\ outcome' = "ok"
    /\ connection_cache' = Put(g.cache, connection.name, connection2)
    /\ nacquired' = g.n
    /\ closed_handles' = closed_handles \cup {connection.handle}
    /\ ret' = connection2
    /\ events' = g.events \o <<Event("close", connection, <<>>)>>
    /\ alters' = {}
    /\ logged' = {}
    /\ UNCHANGED <<catalog, workers, parsed, parsed_nodes,
                 diagnostics>>

\* A cleanup that logs but leaves the module's registry as it is (the
\* assignment binding a local name).
CleanupConnections_keeps_registry ==
    /\ call' = [op |-> "cleanup_connections"]
    /\ outcome' = "ok"
    /\ logged' = {[name |-> nm,
                   status |-> IF connection_cache[nm].state # "closed"
                              THEN "left open" ELSE "properly closed"] :
                  nm \in DOMAIN connection_cache}
    /\ ret' = NoConn
    /\ events' = <<>>
    /\ alters' = {}
    /\ UNCHANGED <<connection_cache, nacquired, closed_handles, catalog,
                   workers, parsed, parsed_nodes, diagnostics>>

\* default.py:304-316
CleanupConnections ==
    /\ call' = [op |-> "cleanup_connections"]
    /\ outcome' = "ok"
    /\ logged' = {[name |-> nm,
                   status |-> IF connection_cache[nm].state # "closed"
                              THEN "left open" ELSE "properly closed"] :
                  nm \in DOMAIN connection_cache}
    /\ connection_cache' = EmptyCache
    /\ ret' = NoConn
    /\ events' = <<>>
    /\ alters' = {}
    /\ UNCHANGED <<nacquired, closed_handles, catalog, workers, parsed,
                 parsed_nodes, diagnostics>>

Next ==
    \/ \E name \in OptNames : GetConnection(name)
    \/ \E name \in Names : Begin(name)
    \/ \E c \in HeldArgs : Commit(c)
    \/ \E c \in HeldArgs : Rollback(c)
    \/ \E c \in HeldArgs : Close(c)
    \/ CleanupConnections

Spec == Init /\ [][Next]_vars

\* ------------------------------------------- execution of compiled models
\* model.get('name') is None for a model without a name.
ModelNames == {None, "model_a"}
Models == [name : ModelNames, wrapped_sql : WrappedSqls]

\* default.py:121-148
ExecuteModel(model) ==
    LET parts == re_split(model.wrapped_sql)
        st0 == [cache |-> connection_cache, n |-> nacquired, events |-> <<>>,
                alters |-> {}, exc |-> "ok"]
    IN
    \E st \in {RunParts(catalog, st0, parts, model)} :
    /\ st.n <= MaxAcquire
    /\ call' = [op |-> "execute_model", name |-> model.name,
                wrapped_sql |-> model.wrapped_sql]
    /\ outcome' = st.exc
    /\ connection_cache' = st.cache
    /\ nacquired' = st.n
    /\ events' = st.events
    /\ alters' = st.alters
    /\ ret' = NoConn
    /\ logged' = {}
    /\ UNCHANGED <<closed_handles, catalog, workers, parsed, parsed_nodes,
                 diagnostics>>

NextExec ==
    \/ \E model \in Models : ExecuteModel(model)
    \/ CleanupConnections

SpecExec == Init /\ [][NextExec]_vars

\* default.py:195-221, called on its own.
ExpandTargetColumnTypes(model_name) ==
    LET x == expand_target_column_types(catalog, connection_cache, nacquired,
                                        "profile", TempTable, ToSchema,
                                        ToTable, model_name)
    IN
    /\ x.n <= MaxAcquire
    /\ call' = [op |-> "expand_target_column_types", name |-> model_name]
    /\ outcome' = "ok"
    /\ connection_cache' = x.cache
    /\ nacquired' = x.n
    /\ events' = x.events
    /\ alters' = x.alters
    /\ ret' = NoConn
    /\ logged' = {}
    /\ UNCHANGED <<closed_handles, catalog, workers, parsed, parsed_nodes,
                 diagnostics>>

\* The warehouse holds any of the bounded catalogs.
InitExpand == \E cat \in Catalogs : InitWith(cat, [op |-> "init"])

NextExpand == \E model_name \in OptNames : ExpandTargetColumnTypes(model_name)

SpecExpand == InitExpand /\ [][NextExpand]_vars

\* ------------------------------------- get_connection on worker threads
\* The registry is a module global that every worker thread reads and writes
\* without a lock; a thread can be preempted between any two of the
\* statements of get_connection.
adapterObs == <<closed_handles, call, outcome, ret, events, alters, logged,
                catalog, parsed, parsed_nodes, diagnostics>>

\* default.py:261-267, a worker enters get_connection(profile, name).
GcCall(w, name) ==
    /\ workers[w].pc = "idle"
    /\ workers' = [workers EXCEPT ![w] = [pc |-> "check",
                                          name |-> NormName(name),
                                          connection |-> NoConn,
                                          got |-> NoConn]]
    /\ UNCHANGED <<connection_cache, nacquired>>
    /\ UNCHANGED adapterObs

\* default.py:269-270, and the same lines entered again from line 278.
GcCheck(w) ==
    /\ workers[w].pc = "check"
    /\ workers' =
         [workers EXCEPT ![w] =
            IF CacheHit(connection_cache, workers[w].name)
            THEN [@ EXCEPT !.pc = "idle",
                           !.got = connection_cache[workers[w].name]]
            ELSE [@ EXCEPT !.pc = "acquire"]]
    /\ UNCHANGED <<connection_cache, nacquired>>
    /\ UNCHANGED adapterObs

\* default.py:275
GcAcquire(w) ==
    /\ workers[w].pc = "acquire"
    /\ nacquired < MaxAcquire
    /\ nacquired' = nacquired + 1
    /\ workers' =
         [workers EXCEPT ![w] =
            [@ EXCEPT !.pc = "store",
                      !.connection =
                         acquire_connection("profile", workers[w].name,
                                            nacquired + 1)]]
    /\ UNCHANGED connection_cache
    /\ UNCHANGED adapterObs

\* default.py:276, then line 278 calls get_connection again.
GcStore(w) ==
    /\ workers[w].pc = "store"
    /\ connection_cache' =
         Put(connection_cache, workers[w].name, workers[w].connection)
    /\ workers' = [workers EXCEPT ![w] = [@ EXCEPT !.pc = "check"]]
    /\ UNCHANGED nacquired
    /\ UNCHANGED adapterObs

NextConc ==
    \/ \E w \in Workers : \E name \in OptNames : GcCall(w, name)
    \/ \E w \in Workers : GcCheck(w)
    \/ \E w \in Workers : GcAcquire(w)
    \/ \E w \in Workers : GcStore(w)

SpecConc == Init /\ [][NextConc]_vars

\* ------------------------------------------------------------------ parsing
adapterState == <<connection_cache, nacquired, closed_handles, ret, events,
                  alters, logged, catalog, workers>>

\* The project configurations: the model defaults of the root project and of
\* the package named analytics.
ProjectConfigs ==
    {[name |-> "analytics", models |-> cfg] :
        cfg \in {EmptyCfg, "materialized" :> "view"}}

\* The call about to be made: a definition and the root project's
\* configuration.
InitParse ==
    \E node \in Nodes : \E root \in ProjectConfigs :
        InitWith(DefaultCatalog, [op |-> "input", node |-> node, root |-> root])

\* parser.py:164-208, called as parse_sql_nodes calls it (parser.py:222-232).
ParseNode ==
    LET node == call.node
        node_path == get_path(node.resource_type, node.package_name, node.name)
    IN /\ call.op = "input"
       /\ \E p \in {parse_node(node, node_path, call.root, call.root, {},
                               <<>>)} :
            /\ call' = [call EXCEPT !.op = "parse_node"]
            /\ outcome' = p.exc
            /\ parsed' = p.node
            /\ diagnostics' = p.undefined
            /\ UNCHANGED <<adapterState, parsed_nodes>>

\* jinja.py:52-59, called on the same raw_sql with the context of parse_node,
\* with or without silent_on_undefined.
GetRendered(silent) ==
    /\ call.op = "input"
    /\ \E r \in {get_rendered(call.node.raw_sql, call.node,
                              "silent_on_undefined" :> silent)} :
         /\ call' = [call EXCEPT !.op = IF silent THEN "get_rendered_silent"
                                        ELSE "get_rendered"]
         /\ outcome' = r.exc
         /\ parsed' = [NoNode EXCEPT !.config = r.in_model_config,
                                     !.depends_on.nodes = r.refs]
         /\ diagnostics' = r.undefined
         /\ UNCHANGED <<adapterState, parsed_nodes>>

NextParse ==
    \/ ParseNode
    \/ \E silent \in BOOLEAN : GetRendered(silent)

SpecParse == InitParse /\ [][NextParse]_vars

\* ----------------------------------------------------- parse_sql_nodes
MaxFiles == 2

\* The relative paths find_matching can return for a package, as the
\* segments split_path gives: two files named orders.sql in different
\* directories, and customers.sql.
RelativePaths ==
    {<<"orders.sql">>, <<"staging", "orders.sql">>, <<"customers.sql">>}

\* The contents of a file: a template of at most one item, every name in it
\* defined.
FileContents ==
    {<<>>} \cup {<<item>> : item \in {it \in Items : it.kind # "undef"}}

\* parser.py:248-251, the matches of one package: at most max_files distinct
\* files, in the order find_matching lists them.
FileMatches(max_files) ==
    {fs \in UNION {[1..k -> [relative_path : RelativePaths,
                             contents : FileContents]] : k \in 0..max_files} :
        \A i, j \in 1..Len(fs) :
            fs[i].relative_path = fs[j].relative_path => i = j}

\* parser.py:255-274, the definition built from one matched file of a
\* resource type other than test.
UnparsedNode(file_match, package_name, resource_type) ==
    LET parts == file_match.relative_path
    IN [name |-> Basename(parts[Len(parts)]),
        package_name |-> package_name,
        resource_type |-> resource_type,
        path |-> file_match.relative_path,
        raw_sql |-> file_match.contents,
        config |-> EmptyCfg]

\* parser.py:218-232, the loop of parse_sql_nodes: acc is the exception
\* raised so far, to_return and the callback invocations.
RECURSIVE parse_sql_nodes_loop(_, _, _, _, _)
parse_sql_nodes_loop(acc, nodes, root_project, projects, tags) ==
    IF nodes = <<>> \/ acc.exc # "ok"
    THEN acc
    ELSE LET node == Head(nodes)
             package_name == node.package_name
             node_path == get_path(node.resource_type, package_name,
                                   node.name)
             p == parse_node(node, node_path, root_project,
                             projects[package_name], tags, <<>>)
         IN parse_sql_nodes_loop(
                [exc |-> p.exc,
                 to_return |-> IF p.exc = "ok"
                               THEN Put(acc.to_return, node_path, p.node)
                               ELSE acc.to_return,
                 undefined |-> acc.undefined \cup p.undefined],
                Tail(nodes), root_project, projects, tags)

\* parser.py:211-236.  Result: the exception raised, the mapping returned
\* (empty when it raises) and the callback invocations.
parse_sql_nodes(nodes, root_project, projects, tags) ==
    LET r == parse_sql_nodes_loop(
                 [exc |-> "ok", to_return |-> NoNodes, undefined |-> {}],
                 nodes, root_project, projects, tags)
    IN IF r.exc = "ok" THEN r ELSE [r EXCEPT !.to_return = NoNodes]

\* parser.py:239-278
load_and_parse_sql(package_name, root_project, all_projects, file_matches, resource_type, tags) ==
    LET result == [i \in 1..Len(file_matches) |->
                      UnparsedNode(file_matches[i], package_name,
                                   resource_type)]
    IN parse_sql_nodes(result, root_project, all_projects, tags)

\* The call about to be made: the files matched in package analytics and the
\* root project's configuration.
InitLoad ==
    \E fs \in FileMatches(MaxFiles) : \E root \in ProjectConfigs :
        InitWith(DefaultCatalog,
                 [op |-> "input_files", files |-> fs, root |-> root])

\* parser.py:239-278, called for the models of the root project.
LoadAndParseSql ==
    /\ call.op = "input_files"
    /\ \E r \in {load_and_parse_sql("analytics", call.root,
                                    "analytics" :> call.root, call.files,
                                    "model", {})} :
         /\ call' = [call EXCEPT !.op = "load_and_parse_sql"]
         /\ outcome' = r.exc
         /\ parsed_nodes' = r.to_return
         /\ diagnostics' = r.undefined
         /\ UNCHANGED <<adapterState, parsed>>

NextLoad == LoadAndParseSql

SpecLoad == InitLoad /\ [][NextLoad]_vars

\* -------------------------------------------------- parse_schema_tests
MaxTests == 2
MaxConfigs == 1

\* The four test types parse_schema_test knows and one it does not.
TestTypes ==
    {"not_null", "unique", "relationships", "accepted_values", "expect_range"}

\* A test config as YAML loads it: a plain string (a field name), or a
\* mapping, of which only the set of keys present matters.
TestConfigs ==
    {[is_dict |-> FALSE, keys |-> {}]} \cup
    {[is_dict |-> TRUE, keys |-> ks] :
        ks \in {{"from", "field", "to"}, {"from", "field"}, {"from", "to"},
                {"field", "to"}, {"field", "values"}, {"field"}, {"values"}}}

\* What a YAML value that may be null is: is_none, or its items in order.
IsNull == [is_none |-> TRUE, items |-> <<>>]
NotNull(items) == [is_none |-> FALSE, items |-> items]

\* The value of `<test type>:` under constraints: null, or a list of at most
\* max_configs configs.
ConfigLists(max_configs) ==
    {IsNull} \cup
    {NotNull(cs) : cs \in UNION {[1..k -> TestConfigs] : k \in 0..max_configs}}

\* The value of `constraints:` of a model: null, or a mapping of at most
\* max_tests distinct test types to their configs, in document order.
Constraints(max_tests, max_configs) ==
    {IsNull} \cup
    {NotNull(its) :
        its \in {s \in UNION {[1..k -> [test_type : TestTypes,
                                        configs : ConfigLists(max_configs)]] :
                              k \in 0..max_tests} :
                    \A i, j \in 1..Len(s) :
                        s[i].test_type = s[j].test_type => i = j}}

\* The schema files handed to parse_schema_tests: one file of package
\* analytics whose YAML holds one model, orders.
SchemaTests(max_tests, max_configs) ==
    {<<[path |-> <<"schema.yml">>, package_name |-> "analytics",
        resource_type |-> "test",
        raw_yml |-> NotNull(<<[model_name |-> "orders",
                               constraints |-> c]>>)]>> :
        c \in Constraints(max_tests, max_configs)}

\* dict.get(k) on a test config; the values the YAML gives the keys.
FieldValue ==
    [from |-> "customer_id", field |-> "id", to |-> "customers",
     values |-> "a,b"]
Get(test_config, k) ==
    IF test_config.is_dict /\ k \in test_config.keys
    THEN FieldValue[k] ELSE None

\* parser.py:386, '{}_{}_{}'.format(test_type, model_name, name_key): the
\* name as the sequence of its parts.
schema_test_name(test_type, model_name, name_key) ==
    <<test_type, model_name>> \o name_key

\* parser.py:350, 355, 371-372, 384: name_key as the sequence of its parts.
name_key_of(test_type, test_config) ==
    CASE test_type \in {"not_null", "unique"} ->
           IF test_config.is_dict THEN <<"{..}">> ELSE <<FieldValue.field>>
      [] test_type = "relationships" ->
           <<Get(test_config, "from"), "to", Get(test_config, "to"),
             Get(test_config, "field")>>
      [] OTHER -> <<Get(test_config, "field")>>

\* dbt.utils.get_pseudo_test_path: a path determined by the YAML file's path
\* and the test's name.
get_pseudo_test_path(name, path, test_type) == <<test_type>> \o path \o name

\* parser.py:74-75
get_test_path(package_name, resource_name) ==
    get_path("test", package_name, resource_name)

\* parser.py:347-390, what the branch of the test type does with the config:
\* "parse" builds a test for parse_node, "skip" returns None, anything else
\* is the exception raised.  In the relationships branch a missing `to` makes
\* "{{ref('" + parent_model + "')}}" add None to a str.
schema_test_branch(test_type, test_config) ==
    CASE test_type \in {"not_null", "unique"} -> "parse"
      [] test_type = "relationships" ->
           IF ~test_config.is_dict THEN "skip"
           ELSE IF Get(test_config, "to") = None THEN "TypeError"
                ELSE "parse"
      [] test_type = "accepted_values" ->
           IF ~test_config.is_dict THEN "skip" ELSE "parse"
      [] OTHER -> "ValidationException"

\* parser.py:403-411, `return parse_node(...)`: what parse_node returned or
\* raised.
ReturnParsed(p) ==
    [exc |-> p.exc, returned |-> p.exc = "ok", node |-> p.node,
     undefined |-> p.undefined]

\* parser.py:344-411.  Result: the exception raised, whether a node was
\* returned (FALSE: None), the node, and the callback invocations.
parse_schema_test(test_base, model_name, test_config, test_type, root_project_config, package_project_config) ==
    LET branch == schema_test_branch(test_type, test_config)
        refs == IF test_type = "relationships"
                THEN <<Item("ref", model_name, "", <<>>),
                       Item("ref", Get(test_config, "to"), "", <<>>)>>
                ELSE <<Item("ref", model_name, "", <<>>)>>
        name == schema_test_name(test_type, model_name,
                                 name_key_of(test_type, test_config))
        to_return ==
            [name |-> name,
             resource_type |-> test_base.resource_type,
             package_name |-> test_base.package_name,
             path |-> get_pseudo_test_path(name, test_base.path,
                                           "schema_test"),
             raw_sql |-> <<Item("text", "", "", <<>>)>> \o refs,
             config |-> EmptyCfg]
    IN IF branch = "parse"
       THEN ReturnParsed(parse_node(to_return,
                                    get_test_path(test_base.package_name,
                                                  name),
                                    root_project_config,
                                    package_project_config, {"schema"}, <<>>))
       ELSE [exc |-> IF branch = "skip" THEN "ok" ELSE branch,
             returned |-> FALSE, node |-> NoNode, undefined |-> {}]

\* Concatenation of a sequence of sequences.
RECURSIVE Flatten(_)
Flatten(seqs) ==
    IF Len(seqs) = 0 THEN <<>> ELSE Head(seqs) \o Flatten(Tail(seqs))

\* parser.py:327-331, the configs the two inner loops reach under one
\* model's constraints, in order: a test type whose configs are null
\* contributes none.
ConfigsOfConstraints(test, model_name, constraints) ==
    Flatten([i \in 1..Len(constraints.items) |->
               LET it == constraints.items[i]
               IN IF it.configs.is_none
                  THEN <<>>
                  ELSE [j \in 1..Len(it.configs.items) |->
                          [test |-> test, model_name |-> model_name,
                           test_type |-> it.test_type,
                           config |-> it.configs.items[j]]]])

\* parser.py:317-325, the configs reached in one schema file: none when the
\* document is empty, none for a model without constraints.
ConfigsOfTest(test) ==
    IF test.raw_yml.is_none
    THEN <<>>
    ELSE Flatten([k \in 1..Len(test.raw_yml.items) |->
                    LET test_spec == test.raw_yml.items[k]
                    IN IF test_spec.constraints.is_none
                       THEN <<>>
                       ELSE ConfigsOfConstraints(test, test_spec.model_name,
                                                 test_spec.constraints)])

\* parser.py:317-331, the iterations of the innermost loop body, over all
\* schema files, in order.
ConfigsOfTests(tests) ==
    Flatten([t \in 1..Len(tests) |-> ConfigsOfTest(tests[t])])

\* parser.py:338-339, `if to_add is not None: to_return[unique_id] = to_add`,
\* or the exception of parse_schema_test passing through.
AddTest(acc, to_add) ==
    [exc |-> to_add.exc,
     to_return |-> IF to_add.exc = "ok" /\ to_add.returned
                   THEN Put(acc.to_return, to_add.node.unique_id, to_add.node)
                   ELSE acc.to_return,
     undefined |-> acc.undefined \cup to_add.undefined]

\* parser.py:332-339, the innermost loop body run over those iterations; acc
\* is the exception raised so far, to_return and the callback invocations.
RECURSIVE parse_schema_tests_loop(_, _, _, _)
parse_schema_tests_loop(acc, work, root_project, projects) ==
    IF Len(work) = 0 \/ acc.exc # "ok"
    THEN acc
    ELSE parse_schema_tests_loop(
             AddTest(acc,
                     parse_schema_test(Head(work).test, Head(work).model_name,
                                       Head(work).config, Head(work).test_type,
                                       root_project,
                                       projects[Head(work).test.package_name])),
             Tail(work), root_project, projects)

\* parser.py:314-341.  Result: the exception raised, the mapping returned
\* (empty when it raises) and the callback invocations.
parse_schema_tests(tests, root_project, projects) ==
    LET r == parse_schema_tests_loop(
                 [exc |-> "ok", to_return |-> NoNodes, undefined |-> {}],
                 ConfigsOfTests(tests), root_project, projects)
    IN IF r.exc = "ok" THEN r ELSE [r EXCEPT !.to_return = NoNodes]

\* The call about to be made: the schema files and the root project's
\* configuration.
InitTests ==
    \E tests \in SchemaTests(MaxTests, MaxConfigs) :
    \E root \in ProjectConfigs :
        InitWith(DefaultCatalog,
                 [op |-> "input_tests", tests |-> tests, root |-> root])

\* parser.py:314-341
ParseSchemaTests ==
    /\ call.op = "input_tests"
    /\ \E r \in {parse_schema_tests(call.tests, call.root,
                                    "analytics" :> call.root)} :
         /\ call' = [call EXCEPT !.op = "parse_schema_tests"]
         /\ outcome' = r.exc
         /\ parsed_nodes' = r.to_return
         /\ diagnostics' = r.undefined
         /\ UNCHANGED <<adapterState, parsed>>

NextTests == ParseSchemaTests

SpecTests == InitTests /\ [][NextTests]_vars

\* ------------------------------------------------------------- properties
CachedTxnOpen(name) ==
    name \in DOMAIN connection_cache /\ connection_cache[name].transaction_open

\* C1: begin raises ProgrammingException exactly when the cached connection
\* of its name has transaction_open true, so a second begin right after a
\* successful one raises; commit and rollback raise ProgrammingException
\* exactly when the cached connection has no transaction open, which includes
\* a name with no cached connection (no prior begin).
C1_TransactionProtocol ==
    [][ /\ \A nm \in Names :
             call' = [op |-> "begin", name |-> nm] =>
               /\ (outcome' = "ProgrammingException") <=> CachedTxnOpen(nm)
               /\ (call = call' /\ outcome = "ok") =>
                     outcome' = "ProgrammingException"
        /\ \A c \in ConnArgs : \A op \in {"commit", "rollback"} :
             call' = [op |-> op, arg |-> c] =>
               ((outcome' = "ProgrammingException") <=> ~CachedTxnOpen(c.name))
      ]_vars

C1_Witness ==
    /\ call.op = "begin"
    /\ outcome = "ProgrammingException"
    /\ connection_cache[call.name].transaction_open

\* C3: every connection of the registry whose transaction_open is true is in
\* state open.
C3_TxnOnlyWhenOpen ==
    \A nm \in DOMAIN connection_cache :
        connection_cache[nm].transaction_open =>
            connection_cache[nm].state = "open"

\* C4: a name stays cached with the same handle until cleanup_connections,
\* and get_connection of a cached name (None standing for "master") returns
\* that cached connection and performs no acquire.
C4_GetConnectionIdempotent ==
    [][ /\ call'.op # "cleanup_connections" =>
             \A nm \in DOMAIN connection_cache :
                 /\ nm \in DOMAIN connection_cache'
                 /\ connection_cache'[nm].handle = connection_cache[nm].handle
        /\ \A nm \in OptNames :
             call' = [op |-> "get_connection", name |-> nm] =>
               /\ ret' = connection_cache'[NormName(nm)]
               /\ ret'.name = (IF nm = None THEN "master" ELSE nm)
               /\ NormName(nm) \in DOMAIN connection_cache =>
                     /\ ret' = connection_cache[NormName(nm)]
                     /\ connection_cache' = connection_cache
                     /\ nacquired' = nacquired
                     /\ events' = <<>>
      ]_vars

C4_Witness ==
    /\ call.op = "get_connection"
    /\ call.name = None
    /\ events = <<>>
    /\ ret.name = "master"
    /\ ret.state = "closed"
    /\ ret.handle > 0

\* C6: a successful begin(profile, name) issues its BEGIN on the handle of the
\* connection named name, acquires no connection of another name, and leaves
\* transaction_open true on the connection named name.
C6_BeginOnNamedConnection ==
    (call.op = "begin" /\ outcome = "ok") =>
        /\ connection_cache[call.name].transaction_open
        /\ \A i \in 1..Len(events) :
              /\ events[i].conn = call.name
              /\ events[i].handle = connection_cache[call.name].handle
        /\ \E i \in 1..Len(events) :
              events[i].kind = "execute" /\ events[i].sql = <<"BEGIN">>

\* The statements and markers of a text in order, a run of adjacent plain
\* statements counting as one statement.
RECURSIVE Shape(_)
Shape(text) ==
    IF text = <<>> THEN <<>>
    ELSE IF Head(text) # "S" THEN <<"operation">> \o Shape(Tail(text))
    ELSE IF Len(text) > 1 /\ text[2] = "S" THEN Shape(Tail(text))
    ELSE <<"statement">> \o Shape(Tail(text))

IsIntrospection(e) ==
    e.kind = "execute" /\ e.sql # <<>> /\ e.sql[1] = "COLUMNS"

\* What execute_model did, in order: the add_query calls of its own loop and
\* its operation dispatches.
Observed(evs) ==
    LET f == SelectSeq(evs, LAMBDA e :
                 \/ e.kind = "dispatch"
                 \/ e.kind = "execute" /\ ~IsIntrospection(e))
    IN [i \in 1..Len(f) |->
          IF f[i].kind = "dispatch" THEN "operation" ELSE "statement"]

\* C5: execute_model on a text of N plain statements and M operation markers
\* executes exactly N statements and dispatches exactly M operations, in the
\* textual order of the statements and markers.
C5_SplitExecutesStatementsAndMarkers ==
    (/\ call.op = "execute_model"
     /\ \A i \in 1..Len(call.wrapped_sql) : call.wrapped_sql[i] \in {"S", "OP"})
    => /\ outcome = "ok"
       /\ Observed(events) = Shape(call.wrapped_sql)

\* C7 as stated: execute_model issues every statement and every query of its
\* operations on the connection named "master" and creates no registry entry
\* of another name.
C7_AllOnMaster ==
    call.op = "execute_model" =>
        \A i \in 1..Len(events) :
            events[i].kind \in {"execute", "acquire"} =>
                events[i].conn = "master"

\* C7 amended: execute_model issues every statement of the model and every
\* introspection query of its operations on the connection named by the
\* model's name ("master" only for a model without a name), on the handle the
\* registry holds for that name, hands that name to alter_column_type, and
\* creates no registry entry of another name.
C7_AllOnModelConnection ==
    call.op = "execute_model" =>
        LET bound == IF call.name = None THEN "master" ELSE call.name IN
        /\ \A i \in 1..Len(events) :
              events[i].kind \in {"execute", "acquire"} =>
                  /\ events[i].conn = bound
                  /\ events[i].handle = connection_cache[bound].handle
        /\ \A a \in alters : a.model_name = call.name

C7_Witness ==
    /\ call.op = "execute_model"
    /\ call.name = "model_a"
    /\ call.wrapped_sql = <<"S", "OP", "S">>
    /\ outcome = "ok"
    /\ Len(events) = 6
    /\ DOMAIN connection_cache = {"model_a"}

\* C8: expand_target_column_types calls alter_column_type for exactly the
\* columns that the reference table and the target table both have, both as
\* strings, with the target narrower than the reference, and the new type is
\* the string type of the reference column's size.
C8_ExpandExactlyWidenable ==
    call.op = "expand_target_column_types" =>
        alters =
          {[schema |-> ToSchema, table |-> ToTable,
            column_name |-> r.column_name,
            new_column_type |-> [data_type |-> "character varying",
                                 char_size |-> r.char_size],
            model_name |-> call.name] :
           r \in {x \in catalog :
                    /\ x.table_name = TempTable
                    /\ x.data_type = "character varying"
                    /\ \E t \in catalog :
                          /\ t.table_schema = ToSchema
                          /\ t.table_name = ToTable
                          /\ t.column_name = x.column_name
                          /\ t.data_type = "character varying"
                          /\ t.char_size < x.char_size}}

\* The column-widening example: target a varchar(10) against reference a
\* varchar(20) is altered to varchar(20), reference b varchar(5) against target
\* b varchar(20) is left alone.
C8_Witness ==
    /\ call.op = "expand_target_column_types"
    /\ DefaultCatalog \subseteq catalog
    /\ alters = {[schema |-> ToSchema, table |-> ToTable, column_name |-> "a",
                  new_column_type |-> [data_type |-> "character varying",
                                       char_size |-> 20],
                  model_name |-> call.name]}

\* The connections the driver has opened and that a worker or the registry
\* still holds.
HeldConnections ==
    {connection_cache[nm] : nm \in DOMAIN connection_cache} \cup
    {workers[w].connection : w \in Workers} \cup
    {workers[w].got : w \in Workers}

LiveHandles(name) ==
    {c.handle : c \in {x \in HeldConnections :
                          /\ x.name = name
                          /\ x.handle > 0
                          /\ x.handle \notin closed_handles}}

\* C2: at any time at most one live connection exists per name, also while
\* several workers are inside get_connection for the same uncached name, and
\* every caller is returned that one connection.
C2_OneLiveConnectionPerName ==
    \A nm \in Names : Cardinality(LiveHandles(nm)) <= 1

RefItems(sql) == {i \in 1..Len(sql) : sql[i].kind = "ref"}
ConfigItems(sql) == {i \in 1..Len(sql) : sql[i].kind = "config"}
UndefItems(sql) == {i \in 1..Len(sql) : sql[i].kind = "undef"}

\* C9: for a raw_sql of plain text and ref() calls, parse_node returns a node
\* whose depends_on.nodes is exactly the set of nodes its ref() calls name.
C9_DependsOnNodesFromRefs ==
    (/\ call.op = "parse_node"
     /\ \A i \in 1..Len(call.node.raw_sql) :
           call.node.raw_sql[i].kind \in {"text", "ref"})
    => /\ outcome = "ok"
       /\ parsed.depends_on.nodes =
            {<<"model", call.node.package_name, call.node.raw_sql[i].name>> :
                i \in RefItems(call.node.raw_sql)}

\* C10: for a raw_sql that uses a name absent from the context (output, call,
\* index, comparison, arithmetic, also chained) and whose config() calls are
\* well formed, parse_node does not raise, the callback is invoked with the
\* node and the name, and the last config() call of the template sets the
\* node's config.
C10_SilentOnUndefined ==
    LET sql == call.node.raw_sql IN
    (/\ call.op = "parse_node"
     /\ UndefItems(sql) # {}
     /\ \A i \in ConfigItems(sql) : sql[i].val # None)
    => /\ outcome = "ok"
       /\ \A i \in UndefItems(sql) :
             [node |-> call.node.name, name |-> sql[i].name] \in diagnostics
       /\ \A i \in ConfigItems(sql) :
             (\A j \in ConfigItems(sql) : j <= i) =>
                 parsed.config[sql[i].name] = sql[i].val

\* C11: load_and_parse_sql / parse_sql_nodes return every input definition in
\* a slot of its own, keyed by its unique id: no exception, as many slots as
\* files matched (same base name in different directories included), each
\* file's node present, and the unique ids pairwise distinct.
C11_EveryNodeInItsOwnSlot ==
    call.op = "load_and_parse_sql" =>
       /\ outcome = "ok"
       /\ Cardinality(DOMAIN parsed_nodes) = Len(call.files)
       /\ \A i \in 1..Len(call.files) :
             \E id \in DOMAIN parsed_nodes :
                /\ parsed_nodes[id].unique_id = id
                /\ parsed_nodes[id].fqn =
                      get_fqn(call.files[i].relative_path, call.root, <<>>)

\* The (test type, config) pairs of the call's constraints, in any order.
TestItems ==
    LET c == call.tests[1].raw_yml.items[1].constraints
    IN {[test_type |-> c.items[i].test_type,
         config |-> c.items[i].configs.items[j]] :
           <<i, j>> \in {ij \in (1..Len(c.items)) \X (1..MaxConfigs + 1) :
                           /\ ~c.items[ij[1]].configs.is_none
                           /\ ij[2] <= Len(c.items[ij[1]].configs.items)}}

\* The test types named under the call's constraints.
NamedTestTypes ==
    LET c == call.tests[1].raw_yml.items[1].constraints
    IN {c.items[i].test_type : i \in 1..Len(c.items)}

KnownTestTypes == {"not_null", "unique", "accepted_values", "relationships"}

\* A config of the shape its test type asks for.
WellFormed(it) ==
    CASE it.test_type = "relationships" ->
           it.config.is_dict /\ {"from", "field", "to"} \subseteq it.config.keys
      [] it.test_type = "accepted_values" ->
           it.config.is_dict /\ {"field", "values"} \subseteq it.config.keys
      [] OTHER -> TRUE

TestId(it) ==
    get_test_path("analytics",
                  schema_test_name(it.test_type, "orders",
                                   name_key_of(it.test_type, it.config)))

\* C12: when every test type is a known one, parse_schema_tests does not
\* raise, skips every relationships / accepted_values config of the wrong
\* shape and returns exactly the nodes of the well-formed configs.
C12_MalformedSkippedOthersReturned ==
    (call.op = "parse_schema_tests" /\ NamedTestTypes \subseteq KnownTestTypes)
    => /\ outcome = "ok"
       /\ DOMAIN parsed_nodes = {TestId(it) : it \in {t \in TestItems :
                                                       WellFormed(t)}}

\* C13: when the constraints name a test type that is not one of the four
\* known ones, parse_schema_tests fails with ValidationException and returns
\* no nodes, whatever configs that type has and whatever other tests there
\* are.
C13_UnknownTestTypeFatal ==
    (call.op = "parse_schema_tests" /\ ~(NamedTestTypes \subseteq KnownTestTypes))
    => /\ outcome = "ValidationException"
       /\ parsed_nodes = NoNodes

\* The positions of raw_sql whose config() call is the last one of the
\* render to set its key.
LastInline(sql) ==
    {i \in 1..Len(sql) :
        /\ sql[i].kind = "config"
        /\ \A j \in (i + 1)..Len(sql) :
              ~(sql[j].kind = "config" /\ sql[j].name = sql[i].name)}

\* A template parse_node has nothing to object to: every name defined and
\* every config() call well formed.
Renderable(sql) ==
    \A i \in 1..Len(sql) :
        /\ sql[i].kind # "undef"
        /\ sql[i].kind = "config" => sql[i].val # None

\* C14: parse_node returns a node in whose config every key set inline has
\* the value of the last inline config() call that set it, whatever the
\* defaults of the projects and the node-level config say; a key set only at
\* node level, or only by the defaults, keeps that value.
C14_InlineConfigWins ==
    (call.op = "parse_node" /\ Renderable(call.node.raw_sql)) =>
       LET sql == call.node.raw_sql
           inline == {sql[i].name : i \in LastInline(sql)}
           defaults == call.root.models
           node_level == call.node.config
       IN /\ outcome = "ok"
          /\ \A i \in LastInline(sql) :
                /\ sql[i].name \in DOMAIN parsed.config
                /\ parsed.config[sql[i].name] = sql[i].val
          /\ \A k \in (DOMAIN node_level \ DOMAIN defaults) \ inline :
                k \in DOMAIN parsed.config /\ parsed.config[k] = node_level[k]
          /\ \A k \in (DOMAIN defaults \ DOMAIN node_level) \ inline :
                k \in DOMAIN parsed.config /\ parsed.config[k] = defaults[k]

\* C15: cleanup_connections never raises; it logs as left open exactly the
\* names of the registry whose connection is not in state closed and as
\* properly closed exactly the others; it leaves the registry empty, and the
\* get_connection that follows it, for any name, makes a driver handshake and
\* returns a connection on a handle never used before.
C15_CleanupReportsLeaksAndEmpties ==
    [][ /\ call'.op = "cleanup_connections" =>
             /\ outcome' = "ok"
             /\ {l.name : l \in {x \in logged' : x.status = "left open"}} =
                   {nm \in DOMAIN connection_cache :
                       connection_cache[nm].state # "closed"}
             /\ {l.name : l \in {x \in logged' : x.status = "properly closed"}} =
                   {nm \in DOMAIN connection_cache :
                       connection_cache[nm].state = "closed"}
             /\ \A l \in logged' : l.status \in {"left open", "properly closed"}
             /\ DOMAIN connection_cache' = {}
        /\ (call.op = "cleanup_connections" /\ call'.op = "get_connection") =>
             /\ Len(events') = 1
             /\ events'[1].kind = "acquire"
             /\ events'[1].handle = ret'.handle
             /\ ret'.handle > nacquired
             /\ ret'.state = "open"
             /\ ret'.name = NormName(call'.name)
             /\ DOMAIN connection_cache' = {ret'.name}
      ]_vars

C15_Witness ==
    /\ call.op = "cleanup_connections"
    /\ outcome = "ok"
    /\ connection_cache = EmptyCache
    /\ \E l \in logged : l.status = "left open"
    /\ \E l \in logged : l.status = "properly closed"
    /\ closed_handles # {}

\* C16: commit(c) and rollback(c) act on the registry's connection of c's
\* name, whatever flag and handle the object c carries: they raise
\* ProgrammingException exactly when that cached connection has no
\* transaction open, a successful call makes one driver commit / rollback, on
\* the cached connection's handle, and leaves that registry entry as it was
\* but with transaction_open false, and every other entry untouched.
C16_CommitRollbackOnCachedEntry ==
    [][ \A c \in ConnArgs : \A op \in {"commit", "rollback"} :
          call' = [op |-> op, arg |-> c] =>
            /\ (outcome' = "ProgrammingException") <=> ~CachedTxnOpen(c.name)
            /\ outcome' \in {"ok", "ProgrammingException"}
            /\ outcome' = "ok" =>
                 /\ events' = <<Event(op, connection_cache[c.name], <<>>)>>
                 /\ connection_cache' =
                      [connection_cache EXCEPT ![c.name].transaction_open = FALSE]
                 /\ ret' = connection_cache'[c.name]
      ]_vars

C16_Witness ==
    /\ call.op = "commit"
    /\ outcome = "ok"
    /\ call.arg.transaction_open = FALSE
    /\ call.arg.handle > 0
    /\ events[1].kind = "commit"
    /\ events[1].handle # call.arg.handle
    /\ connection_cache[call.arg.name].handle = events[1].handle
    /\ ~connection_cache[call.arg.name].transaction_open

\* The call of a step that raised ProgrammingException in begin, commit or
\* rollback, and the connection name it was about.
FailedTxnCall ==
    /\ call'.op \in {"begin", "commit", "rollback"}
    /\ outcome' = "ProgrammingException"
FailedName == IF call'.op = "begin" THEN call'.name ELSE call'.arg.name

\* C17 as stated: a begin, commit or rollback that raises
\* ProgrammingException makes no driver call, acquires no connection and
\* leaves the registry identical, whatever connection it was passed.
C17_FailedCallHasNoEffect ==
    [][ FailedTxnCall =>
          /\ events' = <<>>
          /\ nacquired' = nacquired
          /\ connection_cache' = connection_cache
      ]_vars

\* C17 amended: a begin, commit or rollback that raises ProgrammingException
\* issues no BEGIN, commit or rollback and leaves every entry of the registry
\* as it was.  If the name is in the registry (always so for begin) nothing is
\* acquired and the registry is identical; if commit or rollback is passed a
\* connection whose name is not in the registry, the call has acquired a new
\* connection for that name and left it in the registry, open and with no
\* transaction.
C17_FailedCallOnlyAcquires ==
    [][ FailedTxnCall =>
          /\ \A i \in 1..Len(events') : events'[i].kind = "acquire"
          /\ \A nm \in DOMAIN connection_cache :
                /\ nm \in DOMAIN connection_cache'
                /\ connection_cache'[nm] = connection_cache[nm]
          /\ IF FailedName \in DOMAIN connection_cache
             THEN /\ connection_cache' = connection_cache
                  /\ nacquired' = nacquired
                  /\ events' = <<>>
             ELSE /\ call'.op # "begin"
                  /\ DOMAIN connection_cache' =
                        DOMAIN connection_cache \cup {FailedName}
                  /\ connection_cache'[FailedName] =
                        acquire_connection("profile", FailedName,
                                           nacquired + 1)
                  /\ nacquired' = nacquired + 1
                  /\ events' =
                        <<Event("acquire", connection_cache'[FailedName],
                                <<>>)>>
      ]_vars

C17_Witness ==
    /\ call.op \in {"commit", "rollback"}
    /\ outcome = "ProgrammingException"
    /\ Len(events) = 1
    /\ events[1].kind = "acquire"
    /\ events[1].conn = call.arg.name
    /\ call.arg.name \in DOMAIN connection_cache
    /\ connection_cache[call.arg.name].handle = nacquired
    /\ connection_cache[call.arg.name].state = "open"

====
